---- MODULE Spec2Model ----
(***************************************************************************)
(* A model of the filter-item control of perspective-viewer                *)
(* (rust/perspective-viewer/src/rust/components/filter_item.rs).           *)
(*                                                                         *)
(* Text is a sequence of one-character strings.  A Scalar::Float holds a   *)
(* fixed-point number, in units of 1/FloatScale.  A Scalar::DateTime holds *)
(* a time in HOURS since the epoch instead of milliseconds (every value    *)
(* the control produces is a whole number of days), and the 64-bit casts   *)
(* of the source are kept as casts modulo U64Modulus.                      *)
(***************************************************************************)
EXTENDS Integers, Sequences, FiniteSets, TLC

\* Longest raw text drawn from the alphabet.
MaxLen == 2

\* Number of messages the components handle in one behaviour.
MaxEvents == 4

----------------------------------------------------------------------------
\* Vocabulary

Type == {"String", "Integer", "Float", "Bool", "Date", "Datetime"}

\* get_column_table_type returns None for a column the table does not have.
NoType == "None"

FilterOp == {"EQ", "NE", "GT", "GTE", "LT", "LTE", "BeginsWith", "Contains",
             "EndsWith", "In", "IsNotNull", "IsNull"}

ScalarString(text) == [tag |-> "String", s |-> text, n |-> 0]

ScalarFloat(num) == [tag |-> "Float", s |-> <<>>, n |-> num]

ScalarDateTime(x) == [tag |-> "DateTime", s |-> <<>>, n |-> x]

ScalarNull == [tag |-> "Null", s |-> <<>>, n |-> 0]

TermScalar(x) == [kind |-> "Scalar", scalar |-> x, array |-> <<>>]

TermArray(xs) == [kind |-> "Array", scalar |-> ScalarNull, array |-> xs]

\* Filter(column, op, term): the tuple fields .0, .1 and .2.
Filter(column, op, term) == [column |-> column, op |-> op, term |-> term]

----------------------------------------------------------------------------
\* Text

Digits == <<"0", "1", "2", "3", "4", "5", "6", "7", "8", "9">>

IsDigit(c) == \E k \in 1..10 : Digits[k] = c

DigitVal(c) == (CHOOSE k \in 1..10 : Digits[k] = c) - 1

IsWhitespace(c) == c = " "

RECURSIVE DecVal(_)
DecVal(s) ==
    IF s = <<>> THEN 0
    ELSE 10 * DecVal(SubSeq(s, 1, Len(s) - 1)) + DigitVal(s[Len(s)])

RECURSIVE ToDigits(_)
ToDigits(n) ==
    IF n < 10 THEN <<Digits[n + 1]>>
    ELSE Append(ToDigits(n \div 10), Digits[(n % 10) + 1])

RECURSIVE ZeroPad(_, _)
ZeroPad(s, width) == IF Len(s) >= width THEN s ELSE ZeroPad(<<"0">> \o s, width)

RECURSIVE trim_start(_)
trim_start(s) ==
    IF s # <<>> /\ IsWhitespace(Head(s)) THEN trim_start(Tail(s)) ELSE s

RECURSIVE trim_end(_)
trim_end(s) ==
    IF s # <<>> /\ IsWhitespace(s[Len(s)])
    THEN trim_end(SubSeq(s, 1, Len(s) - 1))
    ELSE s

\* str::trim
trim(s) == trim_end(trim_start(s))

\* A split that drops the empty pieces.
RECURSIVE split_skip_empty(_, _)
split_skip_empty(s, sep) ==
    LET hits == {k \in 1..Len(s) : s[k] = sep}
    IN  IF hits = {} THEN (IF s = <<>> THEN <<>> ELSE <<s>>)
        ELSE LET cut == CHOOSE k \in hits : \A h \in hits : k <= h
                 rest == split_skip_empty(SubSeq(s, cut + 1, Len(s)), sep)
             IN  IF cut = 1 THEN rest ELSE <<SubSeq(s, 1, cut - 1)>> \o rest

\* str::split(sep): the pieces between separators, left to right; a text
\* without separator (the empty text included) is one piece.
RECURSIVE split(_, _)
split(s, sep) ==
    LET hits == {k \in 1..Len(s) : s[k] = sep}
    IN  IF hits = {} THEN <<s>>
        ELSE LET cut == CHOOSE k \in hits : \A h \in hits : k <= h
             IN  <<SubSeq(s, 1, cut - 1)>> \o split(SubSeq(s, cut + 1, Len(s)), sep)

----------------------------------------------------------------------------
\* Numbers

FloatScale == 10 ^ (MaxLen + 1)

\* str::parse::<f64>: [sign] (digits+ | digits+ '.' digits* | digits* '.' digits+).
\* The exponent and the inf/nan forms need letters the raw texts here do not
\* contain.
parse_f64(s) ==
    LET signed == s # <<>> /\ Head(s) \in {"-", "+"}
        body   == IF signed THEN Tail(s) ELSE s
        dots   == {k \in 1..Len(body) : body[k] = "."}
        dot    == IF dots = {} THEN Len(body) + 1
                  ELSE CHOOSE k \in dots : \A h \in dots : k <= h
        int    == SubSeq(body, 1, dot - 1)
        frac   == SubSeq(body, dot + 1, Len(body))
        ok     == /\ Cardinality(dots) <= 1
                  /\ \A k \in 1..Len(int) : IsDigit(int[k])
                  /\ \A k \in 1..Len(frac) : IsDigit(frac[k])
                  /\ Len(int) + Len(frac) >= 1
        mag    == DecVal(int) * FloatScale
                  + DecVal(frac) * (FloatScale \div (10 ^ Len(frac)))
    IN  IF ok THEN [ok |-> TRUE, num |-> IF Head(s) = "-" THEN 0 - mag ELSE mag]
        ELSE [ok |-> FALSE, num |-> 0]

\* f64::floor
floor(num) == (num \div FloatScale) * FloatScale

----------------------------------------------------------------------------
\* Calendar (chrono)

IsLeap(y) == (y % 4 = 0 /\ y % 100 # 0) \/ y % 400 = 0

DaysInMonth(y, m) ==
    IF m = 2 THEN (IF IsLeap(y) THEN 29 ELSE 28)
    ELSE IF m \in {4, 6, 9, 11} THEN 30 ELSE 31

\* Days from 1970-01-01 to the given civil date.
days_from_civil(y, m, d) ==
    LET yy  == IF m <= 2 THEN y - 1 ELSE y
        era == yy \div 400
        yoe == yy - era * 400
        doy == (153 * (IF m > 2 THEN m - 3 ELSE m + 9) + 2) \div 5 + d - 1
        doe == yoe * 365 + yoe \div 4 - yoe \div 100 + doy
    IN  era * 146097 + doe - 719468

\* The civil date of a day number.
civil_from_days(z) ==
    LET z2  == z + 719468
        era == z2 \div 146097
        doe == z2 - era * 146097
        yoe == (doe - doe \div 1460 + doe \div 36524 - doe \div 146096) \div 365
        doy == doe - (365 * yoe + yoe \div 4 - yoe \div 100)
        mp  == (5 * doy + 2) \div 153
        d   == doy - (153 * mp + 2) \div 5 + 1
        m   == IF mp < 10 THEN mp + 3 ELSE mp - 9
        y   == yoe + era * 400
    IN  [year |-> IF m <= 2 THEN y + 1 ELSE y, month |-> m, day |-> d]

\* chrono's scan::number: the longest run of leading digits, at most max of
\* them; an error when there are fewer than min.
scan_number(s, min, max) ==
    LET run == CHOOSE n \in 0..Len(s) :
                   /\ \A k \in 1..n : IsDigit(s[k])
                   /\ n = Len(s) \/ ~IsDigit(s[n + 1])
        n   == IF run > max THEN max ELSE run
    IN  [ok |-> n >= min, val |-> DecVal(SubSeq(s, 1, n)),
         rest |-> SubSeq(s, n + 1, Len(s))]

\* A literal of the pattern: the text must continue with it.
scan_literal(s, c) ==
    IF s # <<>> /\ Head(s) = c THEN [ok |-> TRUE, rest |-> Tail(s)]
    ELSE [ok |-> FALSE, rest |-> <<>>]

\* NaiveDate::parse_from_str(val, "%Y-%m-%d").  Every numeric item skips
\* leading whitespace; a year without sign takes at most four digits, month
\* and day at most two; nothing may follow the day; the date must exist.
parse_from_str(val) ==
    LET s1     == trim_start(val)
        signed == s1 # <<>> /\ Head(s1) \in {"-", "+"}
        y      == IF signed THEN scan_number(Tail(s1), 1, Len(s1))
                  ELSE scan_number(s1, 1, 4)
        year   == IF signed /\ Head(s1) = "-" THEN 0 - y.val ELSE y.val
        l1     == scan_literal(y.rest, "-")
        m      == scan_number(trim_start(l1.rest), 1, 2)
        l2     == scan_literal(m.rest, "-")
        d      == scan_number(trim_start(l2.rest), 1, 2)
        ok     == /\ y.ok /\ l1.ok /\ m.ok /\ l2.ok /\ d.ok
                  /\ d.rest = <<>>
                  /\ m.val \in 1..12
                  /\ d.val \in 1..DaysInMonth(year, m.val)
    IN  IF ok THEN [ok |-> TRUE, year |-> year, month |-> m.val, day |-> d.val]
        ELSE [ok |-> FALSE, year |-> 0, month |-> 0, day |-> 0]

\* NaiveDate::and_hms_opt(0, 0, 0) then NaiveDateTime::timestamp_millis: the
\* time of 00:00:00 of the date read as UTC, here in hours.
timestamp_millis(date) == days_from_civil(date.year, date.month, date.day) * 24

\* Stand-in for 2^64: the casts between i64 and u64 keep the bit pattern.
U64Modulus == 2 ^ 30

as_u64(x) == x % U64Modulus

as_i64(u) == IF u >= U64Modulus \div 2 THEN u - U64Modulus ELSE u

\* DateTime<Local>::format("%Y-%m-%d") of the instant `hours`, for a local
\* zone tz hours east of UTC.
format_local_date(hours, tz) ==
    LET c == civil_from_days((hours + tz) \div 24)
        y == IF c.year \in 0..9999 THEN ZeroPad(ToDigits(c.year), 4)
             ELSE IF c.year < 0 THEN <<"-">> \o ZeroPad(ToDigits(0 - c.year), 4)
             ELSE <<"+">> \o ZeroPad(ToDigits(c.year), 4)
    IN  y \o <<"-">> \o ZeroPad(ToDigits(c.month), 2)
          \o <<"-">> \o ZeroPad(ToDigits(c.day), 2)

----------------------------------------------------------------------------
\* Display (config::Scalar and config::FilterTerm)

\* f64's Display: the shortest decimal text, no fraction for a whole number.
RECURSIVE strip_zeros(_)
strip_zeros(s) ==
    IF s # <<>> /\ s[Len(s)] = "0" THEN strip_zeros(SubSeq(s, 1, Len(s) - 1)) ELSE s

display_f64(num) ==
    LET mag  == IF num < 0 THEN 0 - num ELSE num
        frac == strip_zeros(ZeroPad(ToDigits(mag % FloatScale), MaxLen + 1))
    IN  (IF num < 0 THEN <<"-">> ELSE <<>>)
        \o ToDigits(mag \div FloatScale)
        \o (IF frac = <<>> THEN <<>> ELSE <<".">> \o frac)

display_scalar(x) ==
    CASE x.tag = "String"   -> x.s
      [] x.tag = "Float"    -> display_f64(x.n)
      [] x.tag = "DateTime" -> ToDigits(x.n)
      [] x.tag = "Null"     -> <<>>

RECURSIVE join(_, _)
join(xs, sep) ==
    IF xs = <<>> THEN <<>>
    ELSE IF Len(xs) = 1 THEN xs[1]
    ELSE xs[1] \o <<sep>> \o join(Tail(xs), sep)

\* format!("{}", term)
display_term(term) ==
    IF term.kind = "Scalar" THEN display_scalar(term.scalar)
    ELSE join([k \in 1..Len(term.array) |-> display_scalar(term.array[k])], ",")

----------------------------------------------------------------------------
\* State

VARIABLES
    view_config,   \* the session's ViewConfig.filter: the list of filters
    metadata,      \* the session's table schema: column -> type, or NoType
    local_tz,      \* the local time zone, in hours east of UTC
    props,         \* props[i]: the FilterItemProperties of the item at idx i
    input,         \* input[i]: the text buffer of the item at idx i
    msg,           \* the message handled last
    update,        \* the ViewConfigUpdate the last handler emitted: <<u>> or <<>>
    autocomplete,  \* the last handler called filter_dropdown.autocomplete
    panicked,      \* a handler panicked (unwrap or expect)
    events         \* number of messages handled

vars == <<view_config, metadata, local_tz, props, input, msg, update,
          autocomplete, panicked, events>>

\* Option: <<>> is None, <<x>> is Some(x).
None == <<>>

Some(x) == <<x>>

ViewConfigUpdate_default ==
    [row_pivots |-> None, column_pivots |-> None, columns |-> None,
     filter |-> None, sort |-> None, aggregates |-> None]

FilterItemProperties(filter, idx) == [filter |-> filter, idx |-> idx]

Msg(type, idx, op, raw) == [type |-> type, idx |-> idx, op |-> op, raw |-> raw]

NoMsg == Msg("None", 0, "", <<>>)

\* Result of a call that may panic.
Ok(x) == [panic |-> FALSE, value |-> x]

Panic == [panic |-> TRUE, value |-> None]

----------------------------------------------------------------------------
\* FilterItemProperties

get_column_table_type(column) == metadata[column]

\* A lookup that falls back to String for a column the table does not have.
get_filter_type_or_string(p) ==
    IF get_column_table_type(p.filter.column) = NoType THEN "String"
    ELSE get_column_table_type(p.filter.column)

\* The caller panics (unwrap) when this is NoType.
get_filter_type(p) == get_column_table_type(p.filter.column)

\* Suggestions for every operator with a text operand list or value.
is_suggestable_eq_or_in(p) ==
    IF p.filter.op \in {"EQ", "In"}
    THEN IF get_filter_type(p) = NoType THEN Panic
         ELSE Ok(get_filter_type(p) = "String")
    ELSE Ok(FALSE)

is_suggestable(p) ==
    IF p.filter.op = "EQ"
    THEN IF get_filter_type(p) = NoType THEN Panic
         ELSE Ok(get_filter_type(p) = "String")
    ELSE Ok(FALSE)

\* The String list for every type.
get_filter_ops_all(p) ==
    IF get_filter_type(p) = NoType THEN Panic
    ELSE Ok(<<"EQ", "NE", "GT", "GTE", "LT", "LTE", "BeginsWith", "Contains",
              "EndsWith", "In", "IsNotNull", "IsNull">>)

get_filter_ops(p) ==
    IF get_filter_type(p) = NoType THEN Panic
    ELSE IF get_filter_type(p) = "String"
    THEN Ok(<<"EQ", "NE", "GT", "GTE", "LT", "LTE", "BeginsWith", "Contains",
              "EndsWith", "In", "IsNotNull", "IsNull">>)
    ELSE Ok(<<"EQ", "NE", "GT", "GTE", "LT", "LTE", "IsNotNull", "IsNull">>)

\* An operator change that also clears the term.
update_filter_op_clears_term(filter, p, op) ==
    IF p.idx \notin DOMAIN filter THEN Panic
    ELSE Ok([ViewConfigUpdate_default EXCEPT
                !.filter = Some([filter EXCEPT
                                    ![p.idx].op = op,
                                    ![p.idx].term = TermScalar(ScalarNull)])])

\* An operator change written to every filter up to idx.
update_filter_op_upto(filter, p, op) ==
    IF p.idx \notin DOMAIN filter THEN Panic
    ELSE Ok([ViewConfigUpdate_default EXCEPT
                !.filter = Some([k \in DOMAIN filter |->
                                    IF k <= p.idx THEN [filter[k] EXCEPT !.op = op]
                                    ELSE filter[k]])])

\* update_filter_op on the session's filter list: the emitted update.
update_filter_op(filter, p, op) ==
    IF p.idx \notin DOMAIN filter THEN Panic
    ELSE Ok([ViewConfigUpdate_default EXCEPT
                !.filter = Some([filter EXCEPT ![p.idx].op = op])])

\* Numeric arms that clear the term on text that is no number.
numeric_term_or_null(term, val, integer) ==
    IF val # <<>> /\ parse_f64(val).ok
    THEN TermScalar(ScalarFloat(IF integer THEN floor(parse_f64(val).num)
                                ELSE parse_f64(val).num))
    ELSE TermScalar(ScalarNull)

\* The numeric arms: empty clears, a number is stored, anything else keeps
\* the term.
numeric_term(term, val, integer) ==
    IF val = <<>> THEN TermScalar(ScalarNull)
    ELSE IF parse_f64(val).ok
    THEN TermScalar(ScalarFloat(IF integer THEN floor(parse_f64(val).num)
                                ELSE parse_f64(val).num))
    ELSE term

date_term(val) ==
    IF parse_from_str(val).ok
    THEN TermScalar(ScalarDateTime(as_u64(timestamp_millis(parse_from_str(val)))))
    ELSE TermScalar(ScalarNull)

\* An In arm that stores the text as one scalar.
in_term_scalar(val) == TermScalar(ScalarString(val))

in_term(val) ==
    LET pieces == split(val, ",")
    IN  TermArray([k \in 1..Len(pieces) |-> ScalarString(trim(pieces[k]))])

\* update_filter_value on the session's filter list: the emitted update.
update_filter_value(filter, p, val) ==
    IF p.idx \notin DOMAIN filter THEN Panic
    ELSE LET filter_item == filter[p.idx]
             type == get_filter_type(p)
         IN  IF filter_item.op # "In" /\ type = NoType THEN Panic
             ELSE LET term ==
                          CASE filter_item.op = "In" -> in_term(val)
                            [] filter_item.op # "In" /\ type = "String" ->
                                   TermScalar(ScalarString(val))
                            [] filter_item.op # "In" /\ type = "Integer" ->
                                   numeric_term(filter_item.term, val, TRUE)
                            [] filter_item.op # "In" /\ type = "Float" ->
                                   numeric_term(filter_item.term, val, FALSE)
                            [] filter_item.op # "In" /\ type = "Date" ->
                                   date_term(val)
                            [] OTHER -> filter_item.term
                  IN  Ok([ViewConfigUpdate_default EXCEPT
                             !.filter = Some([filter EXCEPT ![p.idx].term = term])])

\* update_and_render: the session applies the keys the update sets.
update_and_render(filter, u) ==
    IF u.filter = None THEN filter ELSE u.filter[1]

----------------------------------------------------------------------------
\* FilterItem

\* create: the text buffer of a new item.
create(p, tz) ==
    IF p.filter.term.kind = "Scalar" /\ p.filter.term.scalar.tag = "DateTime"
    THEN format_local_date(as_i64(p.filter.term.scalar.n), tz)
    ELSE display_term(p.filter.term)

\* change: the text buffer after new props arrive.
change(old, p, tz) ==
    IF p.filter.term.kind = "Scalar" /\ p.filter.term.scalar.tag = "DateTime"
    THEN LET rescaled == as_i64(p.filter.term.scalar.n)
         IN  IF rescaled > 0 THEN format_local_date(rescaled, tz) ELSE old
    ELSE display_term(p.filter.term)

\* The handler stops at a panic: nothing is emitted.
Abort ==
    /\ panicked' = TRUE
    /\ update' = None
    /\ UNCHANGED view_config

Emit(u) ==
    /\ panicked' = FALSE
    /\ update' = Some(u)
    /\ view_config' = update_and_render(view_config, u)

\* update, FilterItemMsg::FilterInput
FilterInput(i, text) ==
    /\ ~panicked
    /\ events < MaxEvents
    /\ events' = events + 1
    /\ msg' = Msg("FilterInput", i, "", text)
    /\ input' = [input EXCEPT ![i] = text]
    /\ LET suggestable == is_suggestable(props[i])
           value == update_filter_value(view_config, props[i], text)
       IN  IF suggestable.panic
           THEN autocomplete' = FALSE /\ Abort
           ELSE /\ autocomplete' = suggestable.value
                /\ IF value.panic THEN Abort ELSE Emit(value.value)
    /\ UNCHANGED <<metadata, local_tz, props>>

\* update, FilterItemMsg::FilterOpSelect
FilterOpSelect(i, op) ==
    /\ ~panicked
    /\ events < MaxEvents
    /\ events' = events + 1
    /\ msg' = Msg("FilterOpSelect", i, op, <<>>)
    /\ autocomplete' = FALSE
    /\ LET value == update_filter_op(view_config, props[i], op)
       IN  IF value.panic THEN Abort ELSE Emit(value.value)
    /\ UNCHANGED <<metadata, local_tz, props, input>>

\* change: the parent renders the item with the session's current filter.
Change(i) ==
    /\ ~panicked
    /\ events < MaxEvents
    /\ events' = events + 1
    /\ msg' = Msg("change", i, "", <<>>)
    /\ LET p == FilterItemProperties(view_config[i], i)
       IN  /\ input' = [input EXCEPT ![i] = change(input[i], p, local_tz)]
           /\ props' = [props EXCEPT ![i] = p]
    /\ update' = None
    /\ autocomplete' = FALSE
    /\ UNCHANGED <<view_config, metadata, local_tz, panicked>>

----------------------------------------------------------------------------
\* Inputs

RECURSIVE Texts(_)
Alphabet == {"1", ",", " "}

Texts(n) ==
    IF n = 0 THEN {<<>>}
    ELSE Texts(n - 1) \cup {Append(s, c) : s \in Texts(n - 1), c \in Alphabet}

ValidDates ==
    {<<"2", "0", "2", "1", "-", "0", "3", "-", "1", "5">>,
     <<"2", "0", "2", "0", "-", "0", "2", "-", "2", "9">>,
     <<"1", "9", "7", "0", "-", "0", "1", "-", "0", "1">>,
     <<"1", "9", "6", "9", "-", "1", "2", "-", "3", "1">>}

Examples ==
    {<<"1", ",", "2", ",", " ", "3", " ">>,
     <<"3", ".", "7">>,
     <<"-", "1", ".", "5">>,
     <<"-">>,
     <<".">>,
     <<"1", ".">>,
     <<".", "5">>,
     <<"a", "b", "c">>,
     <<"2", "0", "2", "1", "-", "0", "2", "-", "3", "0">>,
     <<"2", "0", "2", "1", "-", "3", "-", "5">>}

RawInputs == Texts(MaxLen) \cup Examples \cup ValidDates

KeyInputs == {<<>>, <<"a">>, <<"1">>, <<"a", ",", " ", "1">>}

OpInputs == {"EQ", "In", "IsNull"}

CodecOps == {"EQ", "Contains", "In"}

TimeZones == {0 - 5, 0, 2}

Columns == <<"c1", "c2">>

NewFilter(column) == Filter(column, "EQ", TermScalar(ScalarNull))

InitItems ==
    /\ props = [i \in DOMAIN view_config |-> FilterItemProperties(view_config[i], i)]
    /\ input = [i \in DOMAIN view_config |->
                   create(FilterItemProperties(view_config[i], i), local_tz)]
    /\ msg = NoMsg
    /\ update = None
    /\ autocomplete = FALSE
    /\ panicked = FALSE
    /\ events = 0

----------------------------------------------------------------------------
\* The viewer: two filters, each with its item.

Init ==
    /\ metadata \in [{Columns[1], Columns[2]} -> Type \cup {NoType}]
    /\ metadata[Columns[2]] = "String"
    /\ local_tz = 0
    /\ view_config = <<NewFilter(Columns[1]), NewFilter(Columns[2])>>
    /\ InitItems

Next ==
    \/ \E i \in DOMAIN view_config, op \in OpInputs : FilterOpSelect(i, op)
    \/ \E i \in DOMAIN view_config, text \in KeyInputs : FilterInput(i, text)
    \/ \E i \in DOMAIN view_config : Change(i)

Spec == Init /\ [][Next]_vars

\* One item of any column type, typed text of every shape.

InitCodec ==
    /\ metadata \in [{Columns[1]} -> Type \cup {NoType}]
    /\ local_tz \in (IF metadata[Columns[1]] = "Date" THEN TimeZones ELSE {0})
    /\ \E op \in CodecOps :
           view_config = <<Filter(Columns[1], op, TermScalar(ScalarNull))>>
    /\ InitItems

NextCodec ==
    \/ \E i \in DOMAIN view_config, text \in RawInputs : FilterInput(i, text)
    \/ \E i \in DOMAIN view_config : Change(i)

SpecCodec == InitCodec /\ [][NextCodec]_vars

----------------------------------------------------------------------------
\* Properties

Item(i) == view_config[i]

ColumnType(i) == metadata[view_config[i].column]

\* The last handler was FilterInput and ran to its end.
ValueSet == msg.type = "FilterInput" /\ ~panicked

OnlyFilterSet(u, filter) ==
    /\ u.filter = Some(filter)
    /\ \A key \in DOMAIN u \ {"filter"} : u[key] = None

\* C1: setOperator at idx with any newOp replaces only the op of the filter
\* at idx; its term and column and every other entry of the list stay as
\* they were, and the patch carries the full updated list and no other key.
C1_SetOperatorFrame ==
    [][(msg'.type = "FilterOpSelect" /\ ~panicked') =>
          /\ DOMAIN view_config' = DOMAIN view_config
          /\ view_config'[msg'.idx].op = msg'.op
          /\ view_config'[msg'.idx].term = view_config[msg'.idx].term
          /\ view_config'[msg'.idx].column = view_config[msg'.idx].column
          /\ \A k \in DOMAIN view_config \ {msg'.idx} :
                 view_config'[k] = view_config[k]
          /\ update' # None
          /\ OnlyFilterSet(update'[1], view_config')]_vars

\* An operator was selected that the term it leaves behind does not fit.
C1_Witness ==
    /\ msg.type = "FilterOpSelect"
    /\ ~panicked
    /\ msg.op # "In"
    /\ Item(msg.idx).term.kind = "Array"
    /\ Item(msg.idx).term.array # <<ScalarString(<<>>)>>

NumericCase ==
    /\ msg.type = "FilterInput"
    /\ ColumnType(msg.idx) \in {"Integer", "Float"}
    /\ Item(msg.idx).op # "In"

\* C2 as stated: on an Integer or Float column under a non-In operator, a
\* non-empty text that is no number leaves the term unchanged and emits no
\* patch; the empty text sets Scalar(Null) and emits a patch.
C2_NoPatch ==
    [][NumericCase' =>
          /\ (msg'.raw # <<>> /\ ~parse_f64(msg'.raw).ok) =>
                 /\ view_config'[msg'.idx].term = view_config[msg'.idx].term
                 /\ update' = None
          /\ msg'.raw = <<>> =>
                 /\ view_config'[msg'.idx].term = TermScalar(ScalarNull)
                 /\ update' # None]_vars

\* C2 amended: on an Integer or Float column under a non-In operator, a
\* non-empty text that is no number leaves the whole filter list unchanged
\* and a patch carrying that unchanged list is still emitted; the empty text
\* sets Scalar(Null) and emits a patch.
C2_TermKept ==
    [][NumericCase' =>
          /\ (msg'.raw # <<>> /\ ~parse_f64(msg'.raw).ok) =>
                 /\ view_config' = view_config
                 /\ update' # None
                 /\ OnlyFilterSet(update'[1], view_config)
          /\ msg'.raw = <<>> =>
                 /\ view_config'[msg'.idx].term = TermScalar(ScalarNull)
                 /\ update' # None
                 /\ OnlyFilterSet(update'[1], view_config')]_vars

\* A number was stored and text that is no number was typed after it.
C2_Witness ==
    /\ NumericCase
    /\ msg.raw # <<>>
    /\ ~parse_f64(msg.raw).ok
    /\ Item(msg.idx).term.kind = "Scalar"
    /\ Item(msg.idx).term.scalar.tag = "Float"

\* C3: a valid YYYY-MM-DD text typed into a Date column is the text the item
\* shows once the stored DateTime comes back through change, in every time
\* zone and for every date.
C3_DateRoundTrip ==
    [][(/\ ValueSet
        /\ msg.raw \in ValidDates
        /\ ColumnType(msg.idx) = "Date"
        /\ Item(msg.idx).op # "In"
        /\ msg'.type = "change"
        /\ msg'.idx = msg.idx)
       => input'[msg.idx] = msg.raw]_vars

\* C4 as stated: right after any setValue the term is an Array iff the op
\* is In.
C4_Reconciled ==
    ValueSet => (Item(msg.idx).term.kind = "Array" <=> Item(msg.idx).op = "In")

\* The typed text makes update_filter_value assign a term.
Assigns(i, raw) ==
    \/ Item(i).op = "In"
    \/ ColumnType(i) \in {"String", "Date"}
    \/ /\ ColumnType(i) \in {"Integer", "Float"}
       /\ raw = <<>> \/ parse_f64(raw).ok

\* C4 amended: right after a setValue the term is an Array iff the op is In
\* whenever the op is In, the column is String or Date, or the column is
\* Integer or Float and the text is empty or a number; in every other case
\* (numeric text that is no number, Bool and Datetime columns) setValue
\* leaves the term as it was, a lingering Array included.
C4_ReconciledWhenAssigned ==
    [][(msg'.type = "FilterInput" /\ ~panicked') =>
          IF Assigns(msg.idx, msg.raw)'
          THEN view_config'[msg'.idx].term.kind = "Array"
                   <=> view_config'[msg'.idx].op = "In"
          ELSE view_config'[msg'.idx].term = view_config[msg'.idx].term]_vars

\* A value was set under In while the item still holds the Scalar term it
\* was rendered with.
C4_Witness ==
    /\ ValueSet
    /\ Item(msg.idx).op = "In"
    /\ Item(msg.idx).term.kind = "Array"
    /\ props[msg.idx].filter.op # "In"
    /\ props[msg.idx].filter.term.kind = "Scalar"

StringOps ==
    <<"EQ", "NE", "GT", "GTE", "LT", "LTE", "BeginsWith", "Contains",
      "EndsWith", "In", "IsNotNull", "IsNull">>

OtherOps == <<"EQ", "NE", "GT", "GTE", "LT", "LTE", "IsNotNull", "IsNull">>

Elements(xs) == {xs[k] : k \in DOMAIN xs}

\* C5: get_filter_ops depends on the column type only: the twelve operators
\* in display order for String, the eight without BeginsWith, Contains,
\* EndsWith and In for every other type; never empty, never a duplicate.
C5_LegalOperators ==
    \A i \in DOMAIN props :
        get_filter_type(props[i]) # NoType =>
            LET ops == get_filter_ops(props[i])
            IN  /\ ~ops.panic
                /\ ops.value = IF get_filter_type(props[i]) = "String"
                               THEN StringOps ELSE OtherOps
                /\ ops.value # <<>>
                /\ Cardinality(Elements(ops.value)) = Len(ops.value)
                /\ Elements(ops.value) \subseteq FilterOp
                /\ Elements(StringOps) =
                       Elements(OtherOps)
                           \cup {"BeginsWith", "Contains", "EndsWith", "In"}

\* An item on a column that is not String was rendered again.
C5_Witness ==
    /\ msg.type = "change"
    /\ get_filter_type(props[msg.idx]) \in Type \ {"String"}
    /\ get_filter_ops(props[msg.idx]).value = OtherOps

\* C6: is_suggestable is true iff the op is EQ and the column is String, for
\* every operator and type, In on String included; FilterInput asks for
\* suggestions exactly then.
C6_Suggestable ==
    /\ \A i \in DOMAIN props :
           get_filter_type(props[i]) # NoType =>
               /\ \A op \in FilterOp :
                      is_suggestable([props[i] EXCEPT !.filter.op = op])
                          = Ok(op = "EQ" /\ get_filter_type(props[i]) = "String")
               /\ is_suggestable(props[i])
                      = Ok(props[i].filter.op = "EQ"
                           /\ get_filter_type(props[i]) = "String")
    /\ (ValueSet /\ ColumnType(msg.idx) # NoType) =>
           (autocomplete <=> /\ props[msg.idx].filter.op = "EQ"
                             /\ ColumnType(msg.idx) = "String")

\* Text was typed into an In filter on a String column: no suggestions.
C6_Witness ==
    /\ ValueSet
    /\ props[msg.idx].filter.op = "In"
    /\ ColumnType(msg.idx) = "String"
    /\ ~autocomplete

Commas(s) == {k \in 1..Len(s) : s[k] = ","}

\* Position of the k-th comma of s; 0 before the first piece and Len(s) + 1
\* after the last.
CommaAt(s, k) ==
    IF k = 0 THEN 0
    ELSE IF k > Cardinality(Commas(s)) THEN Len(s) + 1
    ELSE CHOOSE c \in Commas(s) : Cardinality({d \in Commas(s) : d < c}) = k - 1

PieceAt(s, k) == SubSeq(s, CommaAt(s, k - 1) + 1, CommaAt(s, k) - 1)

\* e is piece without the whitespace around it.
IsTrimOf(e, piece) ==
    /\ e = <<>> \/ (~IsWhitespace(e[1]) /\ ~IsWhitespace(e[Len(e)]))
    /\ \E a \in 0..Len(piece) :
           /\ a + Len(e) <= Len(piece)
           /\ SubSeq(piece, a + 1, a + Len(e)) = e
           /\ \A k \in (1..a) \cup ((a + Len(e) + 1)..Len(piece)) :
                  IsWhitespace(piece[k])

\* C7: under In, setValue stores, whatever the column type, the Array of the
\* pieces of the text between commas, left to right, each without the
\* whitespace around it and as a Scalar::String; empty pieces and duplicates
\* stay, so the length is the number of commas plus one.
C7_InSplit ==
    (ValueSet /\ Item(msg.idx).op = "In") =>
        LET term == Item(msg.idx).term
        IN  /\ term.kind = "Array"
            /\ Len(term.array) = Cardinality(Commas(msg.raw)) + 1
            /\ \A k \in 1..Len(term.array) :
                   /\ term.array[k].tag = "String"
                   /\ IsTrimOf(term.array[k].s, PieceAt(msg.raw, k))

\* A list with a space after a comma and a space at the end was typed into
\* an In filter on a column that is not String.
C7_Witness ==
    /\ ValueSet
    /\ Item(msg.idx).op = "In"
    /\ ColumnType(msg.idx) \notin {"String", NoType}
    /\ msg.raw = <<"1", ",", "2", ",", " ", "3", " ">>
    /\ Len(Item(msg.idx).term.array) = 3

UnknownColumn == msg.type = "FilterInput" /\ ColumnType(msg.idx) = NoType

\* C8 as stated: setValue on a filter whose column the metadata does not
\* know fails fatally and emits no patch, for every operator, In included.
C8_UnknownColumnFatal == UnknownColumn => (panicked /\ update = None)

\* C8 amended: setValue on a filter whose column the metadata does not know
\* fails fatally and emits no patch for every operator but In, and under In
\* when the item's own op is EQ (the suggestion check looks the type up);
\* otherwise under In the type is never looked up and the patch with the
\* Array term is emitted.
C8_UnknownColumnFatalButIn ==
    UnknownColumn =>
        /\ panicked <=> (Item(msg.idx).op # "In" \/ props[msg.idx].filter.op = "EQ")
        /\ panicked => update = None
        /\ ~panicked =>
               /\ update # None
               /\ OnlyFilterSet(update[1], view_config)
               /\ Item(msg.idx).term.kind = "Array"

\* Text was typed into a filter on an unknown column whose op is neither In
\* nor EQ: the lookup in update_filter_value failed.
C8_Witness ==
    /\ UnknownColumn
    /\ panicked
    /\ Item(msg.idx).op = "IsNull"
    /\ props[msg.idx].filter.op = "IsNull"

\* The edits an item can make: an operator or a text.
Edits ==
    {Msg("FilterOpSelect", 0, op, <<>>) : op \in OpInputs}
        \cup {Msg("FilterInput", 0, "", text) : text \in KeyInputs}

\* The filter list after the item at i handles edit e on the list filter.
Edited(filter, i, e) ==
    LET value == IF e.type = "FilterOpSelect"
                 THEN update_filter_op(filter, props[i], e.op)
                 ELSE IF is_suggestable(props[i]).panic THEN Panic
                 ELSE update_filter_value(filter, props[i], e.raw)
    IN  IF value.panic THEN Panic
        ELSE Ok(update_and_render(filter, value.value))

\* C9: one edit at i and one at j # i give the same filter list in either
\* order, and neither changes the entry at the other index (i < j covers
\* every pair, the edits ranging over all of Edits on both sides).
C9_EditsCommute ==
    ~panicked =>
        \A i, j \in DOMAIN view_config : \A e1, e2 \in Edits :
            LET a == Edited(view_config, i, e1)
                b == Edited(view_config, j, e2)
            IN  (i < j /\ ~a.panic /\ ~b.panic) =>
                    /\ a.value[j] = view_config[j]
                    /\ b.value[i] = view_config[i]
                    /\ ~Edited(a.value, j, e2).panic
                    /\ ~Edited(b.value, i, e1).panic
                    /\ Edited(a.value, j, e2).value = Edited(b.value, i, e1).value
                    /\ Edited(a.value, j, e2).value[i] = a.value[i]
                    /\ Edited(a.value, j, e2).value[j] = b.value[j]

\* Both filters were edited, the second one last.
C9_Witness ==
    /\ msg.type \in {"FilterInput", "FilterOpSelect"}
    /\ ~panicked
    /\ msg.idx = 2
    /\ Item(1).op = "In"
    /\ Item(1).term.kind = "Array"
    /\ Item(2) # NewFilter(Columns[2])

\* C10: FilterInput asks for suggestions only if the filter at idx in the
\* current view configuration, whose op selects the parse, has op EQ and a
\* String column.
C10_SuggestMatchesParse ==
    (msg.type = "FilterInput" /\ autocomplete) =>
        /\ Item(msg.idx).op = "EQ"
        /\ ColumnType(msg.idx) = "String"

====
